---- MODULE Spec2Model ----
(***************************************************************************)
(* A model of astar_jps (src/src/astar_jps.rs): best-first search whose    *)
(* successor generator sees the parent of the node being expanded.         *)
(*                                                                         *)
(* The caller-supplied callables are the inputs of the search.  They are   *)
(* drawn in Init and stay fixed for the whole call:                        *)
(*   edges  the moves the successor generator can produce,                 *)
(*   jps    whether the generator prunes the move back to the parent,      *)
(*   h      the heuristic,                                                 *)
(*   goal   the nodes for which the success predicate is true.             *)
(* One step of the model is one iteration of the while loop up to the call *)
(* of the successor generator, or one iteration of the for loop.           *)
(***************************************************************************)
EXTENDS Integers, Sequences, FiniteSets

\* ------------------------------------------------------------------ bounds
NumNodes == 4
MaxEdges == 4
MaxCost == 1
MaxH == 1

Nodes == 0 .. (NumNodes - 1)
Costs == 0 .. MaxCost
\* A move leads to another node; two moves may join the same two nodes.
EdgeUniverse ==
    {e \in [from : Nodes, to : Nodes, move_cost : Costs] : e.from # e.to}

\* ------------------------------------------------------- program constants
start == 0
\* usize::MAX, the parent index of the start node: no index of the store.
USIZE_MAX == -1
\* Option::None
None == [none |-> TRUE]
Some(x) == [some |-> x]
\* Zero::zero()
Zero == 0

VARIABLES
    edges, jps, h, goal,      \* the caller's callables (inputs)
    to_see,                   \* BinaryHeap<SmallestCostHolder>: the entries it holds
    parents,                  \* FxIndexMap<N, (usize, C)>: entry i at position i + 1
    pc,                       \* "while" | "for" | "Some" | "None"
    cost, index,              \* the entry destructured by the last pop
    successors,               \* what is left of the iterator of the for loop
    result,                   \* the value returned
    popped,                   \* history: every entry popped, in order
    successors_calls,         \* history: every call of the successor generator,
                              \* with the cost of the entry being expanded
    heuristic_calls           \* history: every node the heuristic was called on

inputs == <<edges, jps, h, goal>>
history == <<popped, successors_calls, heuristic_calls>>
vars == <<edges, jps, h, goal, to_see, parents, pc, cost, index, successors,
          result, popped, successors_calls, heuristic_calls>>

\* ---------------------------------------------------------------- helpers
RemoveAt(s, k) == SubSeq(s, 1, k - 1) \o SubSeq(s, k + 1, Len(s))

\* ------------------------------------------------- the caller's callables
\* The generator yields the moves out of a node by target, and two moves to
\* the same target dearest first.
MoveBefore(a, b) ==
    \/ a.to < b.to
    \/ a.to = b.to /\ a.move_cost > b.move_cost

RECURSIVE MovesInOrder(_)
MovesInOrder(S) ==
    IF S = {} THEN <<>>
    ELSE LET m == CHOOSE x \in S : \A y \in S \ {x} : MoveBefore(x, y)
         IN  <<m>> \o MovesInOrder(S \ {m})

\* successors(&optional_parent_node, node): a sequence of (node, move_cost).
\* With jps the generator prunes the move that leads back to the parent.
SuccessorsOf(optional_parent_node, node) ==
    LET out == {e \in edges : e.from = node}
        kept == IF jps /\ optional_parent_node # None
                THEN {e \in out : e.to # optional_parent_node.some}
                ELSE out
    IN  MovesInOrder(kept)

\* heuristic(&node)
Heuristic(node) == h[node]

\* success(&node)
Success(node) == node \in goal

\* ------------------------------------------------- SmallestCostHolder, Ord
\* Ord::cmp(self, other): "Less", "Equal" or "Greater".
CmpCost(x, y) == IF x < y THEN "Less" ELSE IF x = y THEN "Equal" ELSE "Greater"

\* Cmp with the estimated costs compared the other way round: the heap then
\* yields the entry with the greatest estimated cost.
CmpEstimateNotReversed(self, other) ==
    LET s == CmpCost(self.estimated_cost, other.estimated_cost)
    IN  IF s = "Equal" THEN CmpCost(self.cost, other.cost) ELSE s

\* Cmp on the accumulated cost alone.
CmpCostOnly(self, other) == CmpCost(self.cost, other.cost)

\* Cmp with the tie on the estimated cost broken the other way round: the
\* entry with the lower accumulated cost is the greater.
CmpTieLowerCost(self, other) ==
    LET s == CmpCost(other.estimated_cost, self.estimated_cost)
    IN  IF s = "Equal" THEN CmpCost(other.cost, self.cost) ELSE s

Cmp(self, other) ==
    LET s == CmpCost(other.estimated_cost, self.estimated_cost)
    IN  IF s = "Equal" THEN CmpCost(self.cost, other.cost) ELSE s

\* BinaryHeap::pop yields a greatest entry; which one of several entries that
\* compare Equal is left to the heap.
IsGreatest(k) ==
    /\ k \in 1 .. Len(to_see)
    /\ \A j \in 1 .. Len(to_see) : Cmp(to_see[k], to_see[j]) # "Less"

\* ------------------------------------------------------------ the IndexMap
\* IndexMap::get_index(i): Some(entry) or None when i is out of range.
GetIndex(map, i) ==
    IF i >= 0 /\ i < Len(map) THEN Some(map[i + 1]) ELSE None

\* The index of a key, or None (IndexMap::entry: Occupied or Vacant).
IndexOf(map, node) ==
    IF \E i \in 1 .. Len(map) : map[i].node = node
    THEN Some((CHOOSE i \in 1 .. Len(map) : map[i].node = node) - 1)
    ELSE None

RECURSIVE UnfoldAdvancesFirst(_, _, _)
\* Unfold moving to the parent index before it yields: the node of the index
\* it is seeded with is left out.
UnfoldAdvancesFirst(map, i, fuel) ==
    LET e == GetIndex(map, i)
        p == IF e = None THEN None ELSE GetIndex(map, e.some.parent)
    IN  IF p = None \/ fuel = 0 THEN <<>>
        ELSE <<p.some.node>> \o UnfoldAdvancesFirst(map, e.some.parent, fuel - 1)

RECURSIVE Unfold(_, _, _)
\* itertools::unfold(index, |i| parents.get_index(*i).map(...)) consumed to
\* its end; fuel stops the walk of a store whose parent indices loop.
Unfold(map, i, fuel) ==
    LET e == GetIndex(map, i)
    IN  IF e = None \/ fuel = 0 THEN <<>>
        ELSE <<e.some.node>> \o Unfold(map, e.some.parent, fuel - 1)

Path(map, i) == Unfold(map, i, Len(map) + 1)

\* --------------------------------------------------- the steps of the loop
\* StartEntry with index 0 where the sentinel belongs.
StartEntryOwnParent == [node |-> start, parent |-> 0, cost |-> Zero]

\* parents.insert(start.clone(), (usize::MAX, Zero::zero()))
StartEntry == [node |-> start, parent |-> USIZE_MAX, cost |-> Zero]

\* NewHolder with the estimated cost in the cost field as well.
NewHolderCostIsEstimate(new_cost, hh, n) ==
    [estimated_cost |-> new_cost + hh, cost |-> new_cost + hh, index |-> n]

\* NewHolder with the heuristic alone as the estimated cost.
NewHolderHeuristicOnly(new_cost, hh, n) ==
    [estimated_cost |-> hh, cost |-> new_cost, index |-> n]

\* SmallestCostHolder { estimated_cost: new_cost + h, cost: new_cost, index: n }
NewHolder(new_cost, hh, n) ==
    [estimated_cost |-> new_cost + hh, cost |-> new_cost, index |-> n]

\* Stale with >= for >: an entry as good as the stored cost is discarded too.
StaleOrEqual(popped_cost, c) == popped_cost >= c

\* Stale without the test: no entry is ever discarded.
StaleNever(popped_cost, c) == FALSE

\* if cost > c { continue; }
Stale(popped_cost, c) == popped_cost > c

\* Better with != for >: a dearer path overwrites the stored value too.
BetterIfDifferent(stored_cost, new_cost) == stored_cost # new_cost

\* if e.get().1 > new_cost
\* Better accepting a new cost equal to the stored one.
BetterOrEqual(stored_cost, new_cost) == stored_cost >= new_cost

Better(stored_cost, new_cost) == stored_cost > new_cost

\* parents.get_index(parent_index).map(|x| x.0)
OptionalParentNode(map, parent_index) ==
    LET at == GetIndex(map, parent_index)
    IN  IF at = None THEN None ELSE Some(at.some.node)

\* ------------------------------------------------------------- the inputs
RECURSIVE ReachedBy(_, _)
\* The nodes the moves of E lead to from the nodes of R, R included.
ReachedBy(E, R) ==
    LET more == R \cup {e.to : e \in {f \in E : f.from \in R}}
    IN  IF more = R THEN R ELSE ReachedBy(E, more)

RECURSIVE GraphsUpTo(_)
\* The sets of at most k moves in which every move leaves a node that the
\* others reach from start: the search never asks for the moves of any other
\* node.
GraphsUpTo(k) ==
    IF k = 0 THEN {{}}
    ELSE LET P == GraphsUpTo(k - 1)
         IN  P \cup UNION {{p \cup {e} :
                              e \in {f \in EdgeUniverse : f.from \in ReachedBy(p, {start})}} :
                           p \in P}

\* The graphs the search is run on.  Renaming the nodes without changing
\* their order changes nothing, so the nodes reached are 0, 1, .. without a
\* gap.
Graphs ==
    {E \in GraphsUpTo(MaxEdges) :
        LET R == ReachedBy(E, {start}) IN R = 0 .. (Cardinality(R) - 1)}

\* Some move leads straight back to where a move came from: only then does
\* pruning the move back to the parent change what the generator produces.
HasBackMove(E) == \E e \in E : \E f \in E : f.from = e.to /\ f.to = e.from

\* ------------------------------------------------------------------- Init
\* The search is never shown a node the moves do not reach: the heuristic is
\* left at zero and the success predicate false there.  It returns when it
\* pops a node that satisfies the success predicate, so it never asks for the
\* moves of one: such a node has none, unless it is the start.
InitOn(graphs) ==
    /\ edges \in graphs
    /\ jps \in IF HasBackMove(edges) THEN BOOLEAN ELSE {FALSE}
    /\ h \in {f \in [Nodes -> 0 .. MaxH] :
                 \A n \in Nodes \ ReachedBy(edges, {start}) : f[n] = 0}
    /\ goal \in {G \in SUBSET ReachedBy(edges, {start}) :
                    \A e \in edges : e.from \in G => e.from = start}
    /\ to_see = <<[estimated_cost |-> Zero, cost |-> Zero, index |-> 0]>>
    /\ parents = <<StartEntry>>
    /\ pc = "while"
    /\ cost = Zero
    /\ index = 0
    /\ successors = <<>>
    /\ result = None
    /\ popped = <<>>
    /\ successors_calls = <<>>
    /\ heuristic_calls = <<>>

Init == InitOn(Graphs)

\* ---------------------------------------------------------------- actions
\* while let Some(..) = to_see.pop() fails: return None.
Exhausted ==
    /\ pc = "while"
    /\ to_see = <<>>
    /\ pc' = "None"
    /\ result' = None
    /\ UNCHANGED <<inputs, to_see, parents, cost, index, successors, history>>

\* The popped entry's node satisfies success: return Some((path, cost)).
Succeed ==
    /\ pc = "while"
    /\ \E k \in 1 .. Len(to_see) :
        /\ IsGreatest(k)
        /\ LET e == to_see[k]
               entry == GetIndex(parents, e.index).some
           IN  /\ Success(entry.node)
               /\ to_see' = RemoveAt(to_see, k)
               /\ cost' = e.cost
               /\ index' = e.index
               /\ popped' = Append(popped, e)
               /\ result' = Some([path |-> Path(parents, e.index), cost |-> e.cost])
    /\ pc' = "Some"
    /\ UNCHANGED <<inputs, parents, successors, successors_calls, heuristic_calls>>

\* Discard looking at the greatest entry without taking it off the heap.
DiscardPeeks ==
    /\ pc = "while"
    /\ \E k \in 1 .. Len(to_see) :
        /\ IsGreatest(k)
        /\ LET e == to_see[k]
               entry == GetIndex(parents, e.index).some
           IN  /\ ~Success(entry.node)
               /\ Stale(e.cost, entry.cost)
    /\ UNCHANGED vars

\* if cost > c { continue; }
Discard ==
    /\ pc = "while"
    /\ \E k \in 1 .. Len(to_see) :
        /\ IsGreatest(k)
        /\ LET e == to_see[k]
               entry == GetIndex(parents, e.index).some
           IN  /\ ~Success(entry.node)
               /\ Stale(e.cost, entry.cost)
               /\ to_see' = RemoveAt(to_see, k)
               /\ cost' = e.cost
               /\ index' = e.index
               /\ popped' = Append(popped, e)
    /\ UNCHANGED <<inputs, parents, pc, successors, result, successors_calls,
                   heuristic_calls>>

\* The popped entry is expanded: the successor generator is called with the
\* node stored at parent_index, if any, and the node.
Expand ==
    /\ pc = "while"
    /\ \E k \in 1 .. Len(to_see) :
        /\ IsGreatest(k)
        /\ LET e == to_see[k]
               entry == GetIndex(parents, e.index).some
               optional_parent_node == OptionalParentNode(parents, entry.parent)
               produced == SuccessorsOf(optional_parent_node, entry.node)
           IN  /\ ~Success(entry.node)
               /\ ~Stale(e.cost, entry.cost)
               /\ to_see' = RemoveAt(to_see, k)
               /\ cost' = e.cost
               /\ index' = e.index
               /\ popped' = Append(popped, e)
               /\ successors' = produced
               /\ successors_calls' = Append(successors_calls,
                      [parent |-> optional_parent_node, node |-> entry.node,
                       produced |-> produced, cost |-> e.cost])
               /\ pc' = IF produced = <<>> THEN "while" ELSE "for"
    /\ UNCHANGED <<inputs, parents, result, heuristic_calls>>

\* AfterSuccessor leaving the for loop after its first iteration.
AfterSuccessorBreaks == "while"

\* for (successor, move_cost) in successors: where control goes after one
\* iteration.
AfterSuccessor == IF Len(successors) = 1 THEN "while" ELSE "for"

\* RelaxVacant storing n, the index of the successor itself, as its parent.
RelaxVacantOwnIndex ==
    /\ pc = "for"
    /\ LET successor == Head(successors).to
           new_cost == cost + Head(successors).move_cost
       IN  /\ IndexOf(parents, successor) = None
           /\ LET n == Len(parents)
                  hh == Heuristic(successor)
              IN  /\ parents' = Append(parents,
                         [node |-> successor, parent |-> n, cost |-> new_cost])
                  /\ to_see' = Append(to_see, NewHolder(new_cost, hh, n))
                  /\ heuristic_calls' = Append(heuristic_calls, successor)
    /\ successors' = Tail(successors)
    /\ pc' = AfterSuccessor
    /\ UNCHANGED <<inputs, cost, index, result, popped, successors_calls>>

\* RelaxVacant taking the index for the heap entry after the insertion: the
\* length of the store with the new entry in it.
RelaxVacantIndexAfterInsert ==
    /\ pc = "for"
    /\ LET successor == Head(successors).to
           new_cost == cost + Head(successors).move_cost
       IN  /\ IndexOf(parents, successor) = None
           /\ LET n == Len(parents) + 1
                  hh == Heuristic(successor)
              IN  /\ parents' = Append(parents,
                         [node |-> successor, parent |-> index, cost |-> new_cost])
                  /\ to_see' = Append(to_see, NewHolder(new_cost, hh, n))
                  /\ heuristic_calls' = Append(heuristic_calls, successor)
    /\ successors' = Tail(successors)
    /\ pc' = AfterSuccessor
    /\ UNCHANGED <<inputs, cost, index, result, popped, successors_calls>>

\* Vacant(e): the successor gets the next index of the store.
RelaxVacant ==
    /\ pc = "for"
    /\ LET successor == Head(successors).to
           new_cost == cost + Head(successors).move_cost
       IN  /\ IndexOf(parents, successor) = None
           /\ LET n == Len(parents)
                  hh == Heuristic(successor)
              IN  /\ parents' = Append(parents,
                         [node |-> successor, parent |-> index, cost |-> new_cost])
                  /\ to_see' = Append(to_see, NewHolder(new_cost, hh, n))
                  /\ heuristic_calls' = Append(heuristic_calls, successor)
    /\ successors' = Tail(successors)
    /\ pc' = AfterSuccessor
    /\ UNCHANGED <<inputs, cost, index, result, popped, successors_calls>>

\* RelaxImprove overwriting the cost and leaving the parent index as it was.
RelaxImproveKeepsParent ==
    /\ pc = "for"
    /\ LET successor == Head(successors).to
           new_cost == cost + Head(successors).move_cost
           at == IndexOf(parents, successor)
       IN  /\ at # None
           /\ Better(parents[at.some + 1].cost, new_cost)
           /\ LET n == at.some
                  hh == Heuristic(successor)
              IN  /\ parents' = [parents EXCEPT ![n + 1].cost = new_cost]
                  /\ to_see' = Append(to_see, NewHolder(new_cost, hh, n))
                  /\ heuristic_calls' = Append(heuristic_calls, successor)
    /\ successors' = Tail(successors)
    /\ pc' = AfterSuccessor
    /\ UNCHANGED <<inputs, cost, index, result, popped, successors_calls>>

\* RelaxImprove removing the entry and inserting the node anew: the node
\* moves to the end of the store and the entries after it shift down.
RelaxImproveReinserts ==
    /\ pc = "for"
    /\ LET successor == Head(successors).to
           new_cost == cost + Head(successors).move_cost
           at == IndexOf(parents, successor)
       IN  /\ at # None
           /\ Better(parents[at.some + 1].cost, new_cost)
           /\ LET n == Len(parents) - 1
                  hh == Heuristic(successor)
              IN  /\ parents' = Append(RemoveAt(parents, at.some + 1),
                         [node |-> successor, parent |-> index, cost |-> new_cost])
                  /\ to_see' = Append(to_see, NewHolder(new_cost, hh, n))
                  /\ heuristic_calls' = Append(heuristic_calls, successor)
    /\ successors' = Tail(successors)
    /\ pc' = AfterSuccessor
    /\ UNCHANGED <<inputs, cost, index, result, popped, successors_calls>>

\* RelaxImprove storing n, the index of the successor itself, as its parent.
RelaxImproveOwnIndex ==
    /\ pc = "for"
    /\ LET successor == Head(successors).to
           new_cost == cost + Head(successors).move_cost
           at == IndexOf(parents, successor)
       IN  /\ at # None
           /\ Better(parents[at.some + 1].cost, new_cost)
           /\ LET n == at.some
                  hh == Heuristic(successor)
              IN  /\ parents' = [parents EXCEPT ![n + 1] =
                         [node |-> successor, parent |-> n, cost |-> new_cost]]
                  /\ to_see' = Append(to_see, NewHolder(new_cost, hh, n))
                  /\ heuristic_calls' = Append(heuristic_calls, successor)
    /\ successors' = Tail(successors)
    /\ pc' = AfterSuccessor
    /\ UNCHANGED <<inputs, cost, index, result, popped, successors_calls>>

\* RelaxImprove overwriting the value and pushing no entry for it.
RelaxImproveNoPush ==
    /\ pc = "for"
    /\ LET successor == Head(successors).to
           new_cost == cost + Head(successors).move_cost
           at == IndexOf(parents, successor)
       IN  /\ at # None
           /\ Better(parents[at.some + 1].cost, new_cost)
           /\ LET n == at.some
              IN  /\ parents' = [parents EXCEPT ![n + 1] =
                         [node |-> successor, parent |-> index, cost |-> new_cost]]
                  /\ heuristic_calls' = Append(heuristic_calls, successor)
    /\ successors' = Tail(successors)
    /\ pc' = AfterSuccessor
    /\ UNCHANGED <<inputs, to_see, cost, index, result, popped, successors_calls>>

\* Occupied(e) with e.get().1 > new_cost: the value is overwritten in place.
RelaxImprove ==
    /\ pc = "for"
    /\ LET successor == Head(successors).to
           new_cost == cost + Head(successors).move_cost
           at == IndexOf(parents, successor)
       IN  /\ at # None
           /\ Better(parents[at.some + 1].cost, new_cost)
           /\ LET n == at.some
                  hh == Heuristic(successor)
              IN  /\ parents' = [parents EXCEPT ![n + 1] =
                         [node |-> successor, parent |-> index, cost |-> new_cost]]
                  /\ to_see' = Append(to_see, NewHolder(new_cost, hh, n))
                  /\ heuristic_calls' = Append(heuristic_calls, successor)
    /\ successors' = Tail(successors)
    /\ pc' = AfterSuccessor
    /\ UNCHANGED <<inputs, cost, index, result, popped, successors_calls>>

\* Occupied(e) otherwise: continue.
RelaxReject ==
    /\ pc = "for"
    /\ LET successor == Head(successors).to
           new_cost == cost + Head(successors).move_cost
           at == IndexOf(parents, successor)
       IN  /\ at # None
           /\ ~Better(parents[at.some + 1].cost, new_cost)
    /\ successors' = Tail(successors)
    /\ pc' = AfterSuccessor
    /\ UNCHANGED <<inputs, to_see, parents, cost, index, result, history>>

Next ==
    \/ Exhausted
    \/ Succeed
    \/ Discard
    \/ Expand
    \/ RelaxVacant
    \/ RelaxImprove
    \/ RelaxReject

Spec == Init /\ [][Next]_vars

\* The call runs on a single thread to its end: a step that can be taken is
\* taken.  Behaviours are checked to their end on the graphs of fewer than
\* MaxEdges moves.
FairInit == InitOn({E \in Graphs : Cardinality(E) < MaxEdges})
FairSpec == FairInit /\ [][Next]_vars /\ WF_vars(Next)

\* ------------------------------------------------ reference definitions
\* What the claims compare the search with: shortest paths over the moves
\* of the graph, computed by relaxing every move NumNodes times.
Infinity == NumNodes * MaxCost + 1

Min(S) == CHOOSE x \in S : \A y \in S : x <= y

RelaxAll(d) ==
    [v \in Nodes |->
        Min({d[v]} \cup {d[e.from] + e.move_cost :
                            e \in {f \in edges : f.to = v /\ d[f.from] < Infinity}})]

RECURSIVE RelaxTimes(_, _)
RelaxTimes(d, k) == IF k = 0 THEN d ELSE RelaxTimes(RelaxAll(d), k - 1)

\* The minimum cost of a path from s to every node, Infinity when none.
ShortestFrom(s) ==
    RelaxTimes([v \in Nodes |-> IF v = s THEN 0 ELSE Infinity], NumNodes)

Reachable == ReachedBy(edges, {start})
GoalReachable == Reachable \cap goal # {}
TrueMinCost == Min({ShortestFrom(start)[g] : g \in Reachable \cap goal})

\* The heuristic never overestimates the cost that remains to a goal.
Admissible ==
    \A n \in Nodes : \A g \in goal :
        LET d == ShortestFrom(n)[g] IN d < Infinity => h[n] <= d

\* The heuristic obeys the triangle inequality on every move.
Consistent == \A e \in edges : h[e.from] <= e.move_cost + h[e.to]

ZeroHeuristic == \A n \in Nodes : h[n] = 0

Returned == pc \in {"Some", "None"}
Last(s) == s[Len(s)]
Expanded(n) == \E i \in 1 .. Len(successors_calls) : successors_calls[i].node = n
TimesExpanded(n) ==
    Cardinality({i \in 1 .. Len(successors_calls) : successors_calls[i].node = n})
\* Some call of the generator on node from produced a move to node to.
Generated(from, to) ==
    \E i \in 1 .. Len(successors_calls) :
        /\ successors_calls[i].node = from
        /\ \E j \in 1 .. Len(successors_calls[i].produced) :
               successors_calls[i].produced[j].to = to
\* Some call of the generator on node from produced the move to node to at
\* cost c.
GeneratedMove(from, to, c) ==
    \E i \in 1 .. Len(successors_calls) :
        /\ successors_calls[i].node = from
        /\ \E j \in 1 .. Len(successors_calls[i].produced) :
               /\ successors_calls[i].produced[j].to = to
               /\ successors_calls[i].produced[j].move_cost = c

\* ------------------------------------------------------------------ C1
\* C1: with an admissible and consistent heuristic (the zero heuristic is
\* one), the search does not give up while a goal is reachable, and the
\* total_cost it returns is the minimum cost of a path from start to a goal,
\* as the reference shortest-path computation finds it.
C1_Optimal ==
    (Returned /\ Consistent /\ Admissible) =>
        /\ pc = "Some" => result.some.cost = TrueMinCost
        /\ pc = "None" => ~GoalReachable

\* A search guided by a heuristic that is not zero on the path it returned,
\* a path of two moves, after it expanded a node that is not on that path.
C1_Witness ==
    /\ pc = "Some"
    /\ Consistent /\ Admissible
    /\ Len(result.some.path) = 3
    /\ h[result.some.path[2]] > 0
    /\ \E n \in Nodes :
           /\ Expanded(n)
           /\ \A i \in 1 .. 3 : result.some.path[i] # n

\* ------------------------------------------------------------------ C2
\* C2: the returned path runs from a goal to the start: its first node
\* satisfies the success predicate, its last node is the start, and every
\* other node was produced by the successor generator called on the node that
\* follows it.
C2_PathGoalToStart ==
    pc = "Some" =>
        LET path == result.some.path
        IN  /\ Len(path) >= 1
            /\ Success(path[1])
            /\ path[Len(path)] = start
            /\ \A i \in 1 .. (Len(path) - 1) : Generated(path[i + 1], path[i])

\* A returned path of three nodes whose middle node had its parent replaced.
C2_Witness ==
    /\ pc = "Some"
    /\ Len(result.some.path) = 3
    /\ \E i \in 1 .. Len(heuristic_calls) : \E j \in (i + 1) .. Len(heuristic_calls) :
           heuristic_calls[i] = result.some.path[2] /\ heuristic_calls[j] = result.some.path[2]

\* ------------------------------------------------------------------ C3
\* C3: the total_cost returned is the cost accumulated along the returned
\* path, whatever the heuristic: the start is stored with cost zero, every
\* other node of the path is stored with the cost of its parent plus the cost
\* of a move the generator produced from the parent to it, and total_cost is
\* the cost stored for the first node of the path.
RECURSIVE ChainAccumulates(_, _, _)
ChainAccumulates(map, i, fuel) ==
    LET e == map[i + 1]
    IN  IF e.parent = USIZE_MAX THEN e.cost = Zero
        ELSE /\ fuel > 0
             /\ e.parent \in 0 .. (Len(map) - 1)
             /\ GeneratedMove(map[e.parent + 1].node, e.node,
                              e.cost - map[e.parent + 1].cost)
             /\ ChainAccumulates(map, e.parent, fuel - 1)

C3_CostIsPathCost ==
    pc = "Some" =>
        /\ result.some.cost = parents[index + 1].cost
        /\ result.some.path = Path(parents, index)
        /\ ChainAccumulates(parents, index, Len(parents))

\* A search under an inconsistent heuristic that expanded a node twice and
\* returned a path of at least two moves of positive cost.
C3_Witness ==
    /\ pc = "Some"
    /\ ~Consistent
    /\ \E n \in Nodes : TimesExpanded(n) >= 2
    /\ Len(result.some.path) >= 3
    /\ result.some.cost >= 1

\* ------------------------------------------------------------------ C4
\* C4: whatever the heuristic, the search never returns None while a node
\* satisfying the success predicate is reachable from start.
C4_NoneOnlyWithoutGoal == pc = "None" => ~GoalReachable

\* A search misled by an inadmissible heuristic, which discarded a stale
\* entry on its way, still returned a path to a reachable goal.
C4_Witness ==
    /\ pc = "Some"
    /\ GoalReachable
    /\ ~Admissible
    /\ \E i \in 1 .. Len(popped) :
           popped[i].cost > parents[popped[i].index + 1].cost

\* ------------------------------------------------------------------ C5
\* C5: the search returns Some only when a node reachable from start
\* satisfies the success predicate, and when it returns None every node
\* reachable from start is in the store and has been expanded.
C5_ExhaustedExploredAll ==
    /\ pc = "Some" => GoalReachable
    /\ pc = "None" =>
           \A n \in Reachable : IndexOf(parents, n) # None /\ Expanded(n)

\* A search that returned None after expanding every node of the graph.
C5_Witness ==
    /\ pc = "None"
    /\ Reachable = Nodes
    /\ \A n \in Reachable : Expanded(n)

\* ------------------------------------------------------------------ C6
\* C6: on these finite graphs with non-negative move costs the loop always
\* terminates, whatever the heuristic and the success predicate: the search
\* returns Some or None.
C6_Terminates == <>Returned

\* A search that returned None after it expanded a node a second time, at a
\* cost improved since the first, and moved along a move of cost zero.
C6_Witness ==
    /\ pc = "None"
    /\ \E n \in Nodes : TimesExpanded(n) >= 2
    /\ \E e \in edges : e.move_cost = 0

\* ------------------------------------------------------------------ C7
\* C7: when the start satisfies the success predicate the search returns, in
\* its first step, the path holding the start alone and cost zero; neither the
\* successor generator nor the heuristic is ever called.
C7_StartIsGoal ==
    Success(start) =>
        /\ successors_calls = <<>>
        /\ heuristic_calls = <<>>
        /\ \/ pc = "while" /\ popped = <<>>
           \/ /\ pc = "Some"
              /\ result = Some([path |-> <<start>>, cost |-> Zero])

\* The search returned at a start that has moves to offer and a heuristic that
\* is not zero.
C7_Witness ==
    /\ pc = "Some"
    /\ Success(start)
    /\ \E e \in edges : e.from = start
    /\ ~ZeroHeuristic

\* ------------------------------------------------------------------ C8
\* C8: every call of the successor generator is made on the node of the
\* popped entry, with the node stored at that node's parent index as the
\* optional parent; the optional parent is none exactly when the node is the
\* start.
C8_CallStep ==
    successors_calls' # successors_calls =>
        LET call == Last(successors_calls')
            entry == parents[Last(popped').index + 1]
        IN  /\ Len(successors_calls') = Len(successors_calls) + 1
            /\ Len(popped') = Len(popped) + 1
            /\ call.node = entry.node
            /\ call.parent =
                  IF entry.parent \in 0 .. (Len(parents) - 1)
                  THEN Some(parents[entry.parent + 1].node)
                  ELSE None
            /\ call.parent = None <=> call.node = start

C8_ParentPassed == [][C8_CallStep]_vars

\* A pruning generator was called on a node that has a move back to its
\* parent, and left that move out.
C8_Witness ==
    /\ jps
    /\ \E i \in 1 .. Len(successors_calls) :
           LET call == successors_calls[i]
           IN  /\ call.parent # None
               /\ \E e \in edges : e.from = call.node /\ e.to = call.parent.some
               /\ \A j \in 1 .. Len(call.produced) :
                      call.produced[j].to # call.parent.some

\* ------------------------------------------------------------------ C9
\* C9: a popped entry whose cost is greater than the cost stored for its
\* index is never accepted, and the cost returned with a path is the cost
\* stored for the index the path starts from.
C9_PopStep ==
    popped' # popped =>
        LET e == Last(popped')
        IN  /\ e.cost > parents[e.index + 1].cost => pc' = "while" /\ result' = None
            /\ pc' = "Some" =>
                   /\ result'.some.cost = e.cost
                   /\ e.cost = parents'[e.index + 1].cost

C9_NoStaleSuccess == [][C9_PopStep]_vars

\* The search returned a goal at its stored cost while a stale entry of that
\* goal, with a greater cost, was still in the heap.
C9_Witness ==
    /\ pc = "Some"
    /\ \E k \in 1 .. Len(to_see) :
           /\ to_see[k].index = index
           /\ to_see[k].cost > result.some.cost

\* ----------------------------------------------------------------- C10
\* C10: when the popped entry's node does not satisfy the success predicate
\* and the popped cost is greater than the cost stored for its index, the
\* iteration ends there: no call of the generator or the heuristic, the store
\* unchanged, the heap only without the popped entry.
C10_StaleStep ==
    (/\ popped' # popped
     /\ ~Success(parents[Last(popped').index + 1].node)
     /\ Last(popped').cost > parents[Last(popped').index + 1].cost) =>
        /\ successors_calls' = successors_calls
        /\ heuristic_calls' = heuristic_calls
        /\ parents' = parents
        /\ pc' = "while"
        /\ result' = result
        /\ \E k \in 1 .. Len(to_see) :
               to_see[k] = Last(popped') /\ to_see' = RemoveAt(to_see, k)

C10_StaleDiscarded == [][C10_StaleStep]_vars

\* A stale entry has just been discarded: the entry popped last cost more
\* than its node's stored cost, and the search goes on.
C10_Witness ==
    /\ pc = "while"
    /\ popped # <<>>
    /\ Last(popped).cost > parents[Last(popped).index + 1].cost
    /\ ~Success(parents[Last(popped).index + 1].node)
    /\ to_see # <<>>

\* ----------------------------------------------------------------- C11
\* C11: one iteration of the for loop, on the successor s with move cost m of
\* the node expanded at popped cost g and index i.  When s is not in the
\* store it is appended with (i, g + m) at a fresh index; when s is stored
\* with a cost greater than g + m its value is overwritten in place with
\* (i, g + m); in both cases exactly the entry (g + m + heuristic(s), g + m,
\* index of s) is pushed and the heuristic is called once, on s.  Otherwise
\* the store and the heap are unchanged and the heuristic is not called.
C11_ForStep ==
    pc = "for" =>
        LET s == Head(successors).to
            new_cost == cost + Head(successors).move_cost
            at == {k \in 1 .. Len(parents) : parents[k].node = s}
            value == [node |-> s, parent |-> index, cost |-> new_cost]
            pushed(n) == [estimated_cost |-> new_cost + h[s], cost |-> new_cost,
                          index |-> n]
        IN  /\ Cardinality(at) <= 1
            /\ at = {} =>
                   /\ parents' = Append(parents, value)
                   /\ to_see' = Append(to_see, pushed(Len(parents)))
                   /\ heuristic_calls' = Append(heuristic_calls, s)
            /\ \A k \in at :
                   IF parents[k].cost > new_cost
                   THEN /\ parents' = [parents EXCEPT ![k] = value]
                        /\ to_see' = Append(to_see, pushed(k - 1))
                        /\ heuristic_calls' = Append(heuristic_calls, s)
                   ELSE /\ parents' = parents
                        /\ to_see' = to_see
                        /\ heuristic_calls' = heuristic_calls
            /\ successors' = Tail(successors)
            /\ successors_calls' = successors_calls
            /\ popped' = popped

C11_Relax == [][C11_ForStep]_vars

\* The value of a node that is not the last of the store has just been
\* overwritten in place: the entry pushed last names its index and its new
\* cost, the node expanded is its parent, and the heuristic was called on it
\* for the second time.
C11_Witness ==
    /\ to_see # <<>>
    /\ LET e == Last(to_see)
       IN  /\ e.index < Len(parents) - 1
           /\ parents[e.index + 1].cost = e.cost
           /\ parents[e.index + 1].parent = index
           /\ heuristic_calls # <<>>
           /\ Last(heuristic_calls) = parents[e.index + 1].node
           /\ \E j \in 1 .. (Len(heuristic_calls) - 1) :
                  heuristic_calls[j] = Last(heuristic_calls)
           /\ \E k \in 1 .. (Len(to_see) - 1) :
                  to_see[k].index = e.index /\ to_see[k].cost > e.cost

\* ----------------------------------------------------------------- C12
\* C12: the store is append-only and index-stable.  The start is at index 0,
\* no node has two entries, every node the search discovered (the start and
\* every node the heuristic was called on) has one, and no step removes an
\* entry or moves a node to another index, also when it overwrites the value.
C12_OneEntryEach(map, discovered) ==
    /\ map[1].node = start
    /\ \A j \in 1 .. Len(map) : \A k \in 1 .. Len(map) :
           map[j].node = map[k].node => j = k
    /\ \A j \in 1 .. Len(discovered) :
           \E k \in 1 .. Len(map) : map[k].node = discovered[j]

C12_StoreStep ==
    /\ Len(parents') >= Len(parents)
    /\ \A k \in 1 .. Len(parents) : parents'[k].node = parents[k].node
    /\ C12_OneEntryEach(parents', heuristic_calls')

C12_IndexStable ==
    /\ C12_OneEntryEach(parents, heuristic_calls)
    /\ [][C12_StoreStep]_vars

\* The heap holds two entries of one index, pushed before and after the
\* value of its node was overwritten, and a node inserted later follows it in
\* the store.
C12_Witness ==
    \E j \in 1 .. Len(to_see) : \E k \in 1 .. Len(to_see) :
        /\ to_see[j].index = to_see[k].index
        /\ to_see[j].cost > to_see[k].cost
        /\ to_see[k].cost = parents[to_see[k].index + 1].cost
        /\ to_see[k].index + 1 < Len(parents)

\* ----------------------------------------------------------------- C13
\* C13: with a consistent heuristic a node that has been expanded is final:
\* no later step changes its stored cost or parent index, although it may be
\* generated again at a cost that is no better, and no node is expanded a
\* second time.
C13_FinalStep ==
    Consistent =>
        /\ \A k \in 1 .. Len(parents) :
               Expanded(parents[k].node) => parents'[k] = parents[k]
        /\ \A n \in Nodes :
               Cardinality({i \in 1 .. Len(successors_calls') :
                               successors_calls'[i].node = n}) <= 1

C13_ExpandedIsFinal == [][C13_FinalStep]_vars

\* Under a consistent heuristic that is not zero, a node expanded earlier was
\* generated again by the expansion of another node, at a cost no better than
\* the one stored, and all the successors of that expansion have been dealt
\* with.
C13_Witness ==
    /\ Consistent /\ ~ZeroHeuristic
    /\ pc = "while"
    /\ \E i \in 1 .. Len(successors_calls) :
       \E j \in (i + 1) .. Len(successors_calls) :
           /\ successors_calls[i].node # start
           /\ \E m \in 1 .. Len(successors_calls[j].produced) :
                  /\ successors_calls[j].produced[m].to = successors_calls[i].node
                  /\ \E k \in 1 .. Len(parents) :
                         /\ parents[k].node = successors_calls[i].node
                         /\ parents[k].parent # IndexOf(parents, successors_calls[j].node).some

\* ----------------------------------------------------------------- C14
\* C14: with a consistent heuristic the estimated costs of the entries popped
\* in one search never decrease, the entry of the start, pushed with the
\* estimated cost zero and not heuristic(start), being the first.
C14_PoppedMonotone ==
    (popped # <<>> /\ Consistent) =>
        /\ popped[1] = [estimated_cost |-> Zero, cost |-> Zero, index |-> 0]
        /\ \A i \in 1 .. (Len(popped) - 1) :
               popped[i].estimated_cost <= popped[i + 1].estimated_cost

\* Under a consistent heuristic that is not zero at the start, four entries
\* were popped, a stale one among them, and the estimated cost rose on the
\* way.
C14_Witness ==
    /\ Consistent
    /\ h[start] > 0
    /\ Len(popped) >= 4
    /\ popped[Len(popped)].estimated_cost > popped[2].estimated_cost
    /\ \E i \in 1 .. Len(popped) :
           popped[i].cost > parents[popped[i].index + 1].cost

\* ----------------------------------------------------------------- C15
\* The entry a step took off the heap, if the step popped one.
C15_PopStep ==
    popped' # popped =>
        LET e == popped'[Len(popped')]
        IN  /\ popped' = Append(popped, e)
            /\ \E k \in 1 .. Len(to_see) :
                   to_see[k] = e /\ to_see' = RemoveAt(to_see, k)
            /\ \A j \in 1 .. Len(to_see) :
                   /\ e.estimated_cost <= to_see[j].estimated_cost
                   /\ to_see[j].estimated_cost = e.estimated_cost
                          => to_see[j].cost <= e.cost

\* The order of two heap entries is the same whatever indices they carry.
C15_IndexIgnored ==
    \A a \in 1 .. Len(to_see), b \in 1 .. Len(to_see) :
        \A i \in 0 .. (NumNodes - 1), j \in 0 .. (NumNodes - 1) :
            Cmp([to_see[a] EXCEPT !.index = i], [to_see[b] EXCEPT !.index = j])
                = Cmp(to_see[a], to_see[b])

\* C15: every pop yields an entry of the heap whose estimated cost is minimal
\* among the entries in the heap and whose accumulated cost is maximal among
\* the entries with that estimated cost; the order of the entries does not
\* depend on their indices.
C15_PopOrder ==
    /\ C15_IndexIgnored
    /\ [][C15_IndexIgnored' /\ C15_PopStep]_vars

\* The search returned on popping an entry while the heap held an entry with
\* the same estimated cost and a lower accumulated cost, and one with a
\* higher estimated cost.
C15_Witness ==
    /\ pc = "Some"
    /\ LET e == popped[Len(popped)]
       IN  /\ \E j \in 1 .. Len(to_see) :
                  /\ to_see[j].estimated_cost = e.estimated_cost
                  /\ to_see[j].cost < e.cost
           /\ \E j \in 1 .. Len(to_see) :
                  to_see[j].estimated_cost > e.estimated_cost

\* ----------------------------------------------------------------- C16
\* C16: the entry of the start node, at index 0, always has the cost zero and
\* the sentinel parent index, also after the start was generated again as a
\* successor; no other entry has the sentinel parent index.
C16_StartEntryKept ==
    /\ Len(parents) >= 1
    /\ parents[1] = [node |-> start, parent |-> USIZE_MAX, cost |-> Zero]
    /\ \A k \in 2 .. Len(parents) :
           parents[k].node # start /\ parents[k].parent # USIZE_MAX

\* A node stored with the cost zero was expanded and produced a move of cost
\* zero back to the start, and the for loop of that expansion is over.
C16_Witness ==
    /\ pc = "while"
    /\ \E i \in 1 .. Len(successors_calls) :
           LET call == successors_calls[i]
           IN  /\ call.node # start
               /\ \E k \in 2 .. Len(parents) :
                      parents[k].node = call.node /\ parents[k].cost = Zero
               /\ \E m \in 1 .. Len(call.produced) :
                      /\ call.produced[m].to = start
                      /\ call.produced[m].move_cost = Zero

\* ----------------------------------------------------------------- C17
RECURSIVE C17_Indices(_, _)
\* The indices met on following the parent indices from index i up to the
\* sentinel, at most fuel of them.
C17_Indices(i, fuel) ==
    IF i = USIZE_MAX \/ fuel = 0 THEN <<>>
    ELSE <<i>> \o C17_Indices(parents[i + 1].parent, fuel - 1)

C17_ParentsExist ==
    \A k \in 1 .. Len(parents) :
        parents[k].parent = USIZE_MAX \/ parents[k].parent \in 0 .. (Len(parents) - 1)

\* C17: the parent indices form a forest rooted at the start: every parent
\* index other than the sentinel is an index of the store, following the
\* parent indices from any index reaches the sentinel without meeting an
\* index twice, and the path reconstructed from any index is finite, repeats
\* no node and ends with the start.
C17_Forest ==
    /\ C17_ParentsExist
    /\ \A i \in 0 .. (Len(parents) - 1) :
           LET c == C17_Indices(i, Len(parents) + 1)
               p == Path(parents, i)
           IN  /\ Len(c) <= Len(parents)
               /\ \A a \in 1 .. Len(c), b \in 1 .. Len(c) : c[a] = c[b] => a = b
               /\ parents[c[Len(c)] + 1].parent = USIZE_MAX
               /\ Len(p) = Len(c)
               /\ \A a \in 1 .. Len(p) : p[a] = parents[c[a] + 1].node
               /\ \A a \in 1 .. Len(p), b \in 1 .. Len(p) : p[a] = p[b] => a = b
               /\ p[Len(p)] = start

\* Two nodes joined by moves of cost zero in both directions were both
\* expanded, one is the stored parent of the other, and the path
\* reconstructed from the latter has three nodes.
C17_Witness ==
    \E a \in 1 .. Len(parents), b \in 1 .. Len(parents) :
        /\ [from |-> parents[a].node, to |-> parents[b].node, move_cost |-> Zero] \in edges
        /\ [from |-> parents[b].node, to |-> parents[a].node, move_cost |-> Zero] \in edges
        /\ Expanded(parents[a].node) /\ Expanded(parents[b].node)
        /\ parents[b].parent = a - 1
        /\ Len(Path(parents, b - 1)) = 3

\* ----------------------------------------------------------------- C18
\* Every heap entry names an index of the store and carries a cost no lower
\* than the cost stored at that index.
C18_HeapEntriesValid ==
    \A k \in 1 .. Len(to_see) :
        /\ GetIndex(parents, to_see[k].index) # None
        /\ to_see[k].cost >= parents[to_see[k].index + 1].cost

\* No step raises the cost stored at an index.
C18_CostStep ==
    \A k \in 1 .. Len(parents) :
        k <= Len(parents') /\ parents'[k].cost <= parents[k].cost

\* C18: every heap entry refers to an existing index of the store and its
\* cost is at least the cost stored there; the cost stored for a node never
\* increases.
C18_HeapAndStore ==
    /\ C18_HeapEntriesValid
    /\ [][C18_HeapEntriesValid' /\ C18_CostStep]_vars

\* The heap holds an entry dearer than the cost now stored at its index,
\* next to the entry pushed when that cost was stored.
C18_Witness ==
    \E k \in 1 .. Len(to_see), j \in 1 .. Len(to_see) :
        /\ to_see[k].index = to_see[j].index
        /\ to_see[k].cost > parents[to_see[k].index + 1].cost
        /\ to_see[j].cost = parents[to_see[j].index + 1].cost
        /\ to_see[k].index = Len(parents) - 1

\* ----------------------------------------------------------------- C19
\* Some call of the generator expanded node n popped at cost c.
C19_ExpandedAt(n, c) ==
    \E i \in 1 .. Len(successors_calls) :
        successors_calls[i].node = n /\ successors_calls[i].cost = c

\* The heap entries of index i that carry cost c.
C19_EntriesAt(i, c) ==
    {j \in 1 .. Len(to_see) : to_see[j].index = i /\ to_see[j].cost = c}

\* C19: while the search runs, between two iterations of a loop, every node
\* of the store not yet expanded at the cost now stored for it has exactly
\* one heap entry of its index with that cost, so an improvement is never
\* lost; no node is expanded twice at the same cost.
C19_OnePendingEntry ==
    /\ pc \in {"while", "for"} =>
           \A k \in 1 .. Len(parents) :
               ~C19_ExpandedAt(parents[k].node, parents[k].cost)
                   => Cardinality(C19_EntriesAt(k - 1, parents[k].cost)) = 1
    /\ \A i \in 1 .. Len(successors_calls), j \in 1 .. Len(successors_calls) :
           (/\ successors_calls[i].node = successors_calls[j].node
            /\ successors_calls[i].cost = successors_calls[j].cost) => i = j

\* At the head of the loop a node expanded at a dearer cost has since been
\* improved and waits in the heap, in one entry, to be expanded at the cost
\* now stored, and some node has been expanded twice.
C19_Witness ==
    /\ pc = "while"
    /\ \E k \in 1 .. Len(parents) :
           /\ Expanded(parents[k].node)
           /\ ~C19_ExpandedAt(parents[k].node, parents[k].cost)
           /\ Cardinality(C19_EntriesAt(k - 1, parents[k].cost)) = 1
    /\ \E n \in Nodes : TimesExpanded(n) = 2

====
